---- MODULE Spec2Model ----
(***************************************************************************)
(* A model of vapi.py: the Required / Provides metadata records, the       *)
(* RequiredProperty / ProvidesProperty accessor subclasses, the shared     *)
(* argument normalizer _helper and the four annotation entry points.       *)
(*                                                                         *)
(* Python values are records tagged with their type.  A string is the      *)
(* sequence of its characters, so that iterating a string (what            *)
(* frozenset(s) does) and wrapping it in a list (what frozenset([s]) does) *)
(* are different computations.  An object's instance dictionary is the set *)
(* of its <<name, value>> items.                                           *)
(***************************************************************************)
EXTENDS Integers, Sequences, FiniteSets, TLC

VARIABLES obj, pending, last, ncalls, query

vars == <<obj, pending, last, ncalls, query>>

(***************************************************************************)
(* Bounds of the model.                                                    *)
(***************************************************************************)
MaxVersion == 2
MaxStrLen == 2
MaxSeqLen == 2
MaxPosArgs == 2
MaxCalls == 3

Chars == {"a", "b"}

(***************************************************************************)
(* Python values.                                                          *)
(***************************************************************************)
None == [type |-> "NoneType"]

Str(cs) == [type |-> "str", chars |-> cs]

List(xs) == [type |-> "list", items |-> xs]

FrozenSet(S) == [type |-> "frozenset", elems |-> S]

Ref(id) == [type |-> "ref", id |-> id]

Function == [type |-> "function", dict |-> {}]

SeqsUpTo(S, n) == UNION {[1..k -> S] : k \in 0..n}

Strings == {Str(cs) : cs \in SeqsUpTo(Chars, MaxStrLen)}

\* bool(x) for the values a `cap` option takes: None, a string, a sequence.
Truthy(v) ==
    CASE v.type = "NoneType" -> FALSE
      [] v.type = "str" -> v.chars # << >>
      [] v.type = "list" -> v.items # << >>
      [] OTHER -> TRUE

\* The elements iterating a value yields: a string yields its characters,
\* each a one-character string; a list yields its items.
Iterate(v) ==
    IF v.type = "str"
    THEN {Str(<<v.chars[i]>>) : i \in DOMAIN v.chars}
    ELSE {v.items[i] : i \in DOMAIN v.items}

(***************************************************************************)
(* class Required                                                          *)
(***************************************************************************)
Required_init(since, caps) == [type |-> "Required", since |-> since, caps |-> caps]

Required_required_strict(self, version, caps) ==
    /\ version > self.since
    /\ (self.caps = None \/ (self.caps.elems \cap caps.elems) # {})

Required_required(self, version, caps) ==
    /\ version >= self.since
    /\ (self.caps = None \/ (self.caps.elems \cap caps.elems) # {})

(***************************************************************************)
(* class Provides                                                          *)
(***************************************************************************)
Provides_init(since) == [type |-> "Provides", since |-> since]

(***************************************************************************)
(* Instance attributes.  Assigning an attribute replaces the item of that  *)
(* name in the object's dictionary.                                        *)
(***************************************************************************)
GetAttrs(o, name) == {p[2] : p \in {q \in o.dict : q[1] = name}}

SetAttr_clobber(o, name, value) ==
    [o EXCEPT !.dict = {<<name, value>>}]

SetAttr_append(o, name, value) ==
    [o EXCEPT !.dict = @ \cup {<<name, value>>}]

SetAttr(o, name, value) ==
    [o EXCEPT !.dict = {p \in @ : p[1] # name} \cup {<<name, value>>}]

\* property.__init__(fget, fset, fdel, doc)
property_init(self, fget, fset, fdel, doc) ==
    [self EXCEPT !.fget = fget, !.fset = fset, !.fdel = fdel, !.doc = doc]

NewObject(cls) ==
    [type |-> cls, dict |-> {}, fget |-> None, fset |-> None, fdel |-> None,
     doc |-> None]

\* The names module vapi binds at its top level.
ModuleGlobals ==
    {"functools", "six", "Required", "Provides", "RequiredProperty",
     "ProvidesProperty", "_helper", "required", "required_property",
     "provides", "provides_property"}

(***************************************************************************)
(* class RequiredProperty(property)                                        *)
(***************************************************************************)
RequiredProperty_init(req, fget) ==
    LET locals == [req |-> req, fget |-> fget, fset |-> None, fdel |-> None,
                   doc |-> None]
        self == SetAttr(NewObject("RequiredProperty"), "__isrequiredmethod__",
                        locals["req"])
    IN  [status |-> "ok",
         ret |-> property_init(self, locals.fget, locals.fset, locals.fdel,
                               locals.doc)]

(***************************************************************************)
(* class ProvidesProperty(property).  Its __init__ names its first         *)
(* parameter prov and assigns the name req, which is neither a local, nor  *)
(* a module global, nor a builtin: evaluating it raises NameError before   *)
(* anything is set.                                                        *)
(***************************************************************************)
ProvidesProperty_init(prov, fget) ==
    LET locals == [prov |-> prov, fget |-> fget, fset |-> None, fdel |-> None,
                   doc |-> None]
    IN  IF "req" \in DOMAIN locals \cup ModuleGlobals
        THEN LET value == IF "req" \in DOMAIN locals THEN locals["req"]
                          ELSE [type |-> "global", id |-> "req"]
                 self == SetAttr(NewObject("ProvidesProperty"),
                                 "__isprovidedmethod__", value)
             IN  [status |-> "ok",
                  ret |-> property_init(self, locals.fget, locals.fset,
                                        locals.fdel, locals.doc)]
        ELSE [status |-> "NameError", ret |-> None]

(***************************************************************************)
(* The decoration actions of the four entry points.  A plain decorator     *)
(* assigns the attribute on the member in place and returns the member; a  *)
(* property class returns a new accessor whose getter is the member.       *)
(***************************************************************************)
required_decorator(req, func, heap) ==
    [status |-> "ok", ret |-> Ref(func),
     heap |-> [heap EXCEPT ![func] = SetAttr(@, "__isrequiredmethod__", req)]]

provides_decorator(prov, func, heap) ==
    [status |-> "ok", ret |-> Ref(func),
     heap |-> [heap EXCEPT ![func] = SetAttr(@, "__isprovidedmethod__", prov)]]

CallDecorator(decorator, inst, func, heap) ==
    CASE decorator = "required.decorator" -> required_decorator(inst, func, heap)
      [] decorator = "provides.decorator" -> provides_decorator(inst, func, heap)
      [] decorator = "RequiredProperty" ->
            LET r == RequiredProperty_init(inst, heap[func])
            IN  [status |-> r.status, ret |-> r.ret, heap |-> heap]
      [] decorator = "ProvidesProperty" ->
            LET r == ProvidesProperty_init(inst, heap[func])
            IN  [status |-> r.status, ret |-> r.ret, heap |-> heap]

(***************************************************************************)
(* _helper                                                                 *)
(***************************************************************************)
EmptyDict == [k \in {} |-> None]

\* kwargs.pop(key, default): the value, and the mapping left behind.
Pop(kwargs, key, default) ==
    IF key \in DOMAIN kwargs THEN kwargs[key] ELSE default

Remove(kwargs, key) == [k \in DOMAIN kwargs \ {key} |-> kwargs[k]]

\* Lines 145-150: the capability set built from the `cap` option.
NormalizeCaps_iterate(caps) ==
    IF Truthy(caps) THEN FrozenSet(Iterate(caps)) ELSE None

NormalizeCaps_notNone(caps) ==
    IF caps # None
    THEN FrozenSet(IF caps.type = "str" THEN {caps} ELSE Iterate(caps))
    ELSE None

NormalizeCaps(caps) ==
    IF Truthy(caps)
    THEN FrozenSet(IF caps.type = "str" THEN {caps} ELSE Iterate(caps))
    ELSE None

\* The keyword arguments left once the recognized options are popped.
Leftover_none(kwargs, keys) == EmptyDict

Leftover(kwargs, keys) ==
    LET kw1 == IF "since" \in keys THEN Remove(kwargs, "since") ELSE kwargs
    IN  IF "cap" \in keys THEN Remove(kw1, "cap") ELSE kw1

\* Line 158.
TooManyPositional_offByOne(args) == Len(args) > 2

TooManyPositional(args) == Len(args) > 1

\* The constructor arguments assembled from the recognized options.
ClsArgs(kwargs, keys) ==
    LET kw1 == IF "since" \in keys THEN Remove(kwargs, "since") ELSE kwargs
    IN  [k \in {x \in {"since", "caps"} :
                   \/ x = "since" /\ "since" \in keys
                   \/ x = "caps" /\ "cap" \in keys} |->
            IF k = "since" THEN Pop(kwargs, "since", 0)
            ELSE NormalizeCaps(Pop(kw1, "cap", None))]

\* cls(**cls_args)
Instantiate(cls, cls_args) ==
    IF cls = "Required"
    THEN Required_init(cls_args["since"], cls_args["caps"])
    ELSE Provides_init(cls_args["since"])

Partial_defaults(decorator, inst) ==
    [type |-> "partial", func |-> decorator,
     args |-> IF inst.type = "Required" THEN Required_init(0, None)
              ELSE Provides_init(0)]

Partial(decorator, inst) ==
    [type |-> "partial", func |-> decorator, args |-> inst]

Raise(exc, msg, heap) ==
    [status |-> exc, msg |-> msg, clsCalls |-> 0, decCalls |-> 0,
     inst |-> None, ret |-> None, heap |-> heap]

_helper(args, kwargs, decorator, keys, cls, heap) ==
    LET cls_args == ClsArgs(kwargs, keys)
        rest == Leftover(kwargs, keys)
    IN  IF DOMAIN rest # {}
        THEN Raise("TypeError", [kind |-> "keyword", keys |-> DOMAIN rest], heap)
        ELSE IF TooManyPositional(args)
        THEN Raise("TypeError", [kind |-> "positional", n |-> Len(args)], heap)
        ELSE LET inst == Instantiate(cls, cls_args)
             IN  IF args # << >>
                 THEN LET r == CallDecorator(decorator, inst, args[1], heap)
                      IN  [status |-> r.status, msg |-> None, clsCalls |-> 1,
                           decCalls |-> 1, inst |-> inst, ret |-> r.ret,
                           heap |-> r.heap]
                 ELSE [status |-> "ok", msg |-> None, clsCalls |-> 1,
                       decCalls |-> 0, inst |-> inst,
                       ret |-> Partial(decorator, inst), heap |-> heap]

(***************************************************************************)
(* The entry points.                                                       *)
(***************************************************************************)
required(args, kwargs, heap) ==
    _helper(args, kwargs, "required.decorator", {"since", "cap"}, "Required", heap)

required_property(args, kwargs, heap) ==
    _helper(args, kwargs, "RequiredProperty", {"since", "cap"}, "Required", heap)

provides(args, kwargs, heap) ==
    _helper(args, kwargs, "provides.decorator", {"since"}, "Provides", heap)

provides_property(args, kwargs, heap) ==
    _helper(args, kwargs, "ProvidesProperty", {"since"}, "Provides", heap)

EntryPoints == {"required", "required_property", "provides", "provides_property"}

EntryPoint(ep, args, kwargs, heap) ==
    CASE ep = "required" -> required(args, kwargs, heap)
      [] ep = "required_property" -> required_property(args, kwargs, heap)
      [] ep = "provides" -> provides(args, kwargs, heap)
      [] ep = "provides_property" -> provides_property(args, kwargs, heap)

(***************************************************************************)
(* State.  obj is the class body's namespace: the object each member name  *)
(* is bound to.  pending is the deferred decorator last returned by a call *)
(* with no positional argument.  last records the last operation: what was *)
(* called, the namespace before it, and what it did.  query is one call of *)
(* Required.required.                                                      *)
(***************************************************************************)
Objs == {"f", "g"}

NoPending == [type |-> "NoneType"]

Idle == [op |-> "idle"]

Fresh == [o \in Objs |-> Function]

QueryIdle ==
    [self |-> Required_init(0, None), version |-> 0, caps |-> FrozenSet({}),
     done |-> FALSE, result |-> FALSE]

\* `name = decorator(name)`: a returned reference is the member itself,
\* anything else is a new object the name is rebound to.
Bind(heap, name, ret) ==
    IF ret.type = "ref" THEN heap ELSE [heap EXCEPT ![name] = ret]

\* The object an operation returned.
Returned(l) == IF l.ret.type = "ref" THEN l.after[l.ret.id] ELSE l.ret

Call(ep, args, kwargs) ==
    LET r == EntryPoint(ep, args, kwargs, obj)
    IN  /\ obj' = IF r.status = "ok" /\ args # << >>
                  THEN Bind(r.heap, args[1], r.ret)
                  ELSE r.heap
        /\ pending' = IF r.status = "ok" /\ args = << >>
                      THEN [type |-> "pending", partial |-> r.ret, ep |-> ep,
                            kwargs |-> kwargs]
                      ELSE pending
        /\ last' = [op |-> "call", ep |-> ep, args |-> args, kwargs |-> kwargs,
                    status |-> r.status, msg |-> r.msg, clsCalls |-> r.clsCalls,
                    decCalls |-> r.decCalls, inst |-> r.inst, ret |-> r.ret,
                    before |-> obj, after |-> obj']
        /\ ncalls' = ncalls + 1
        /\ UNCHANGED query

\* The deferred decorator applied to a member: partial(decorator, inst)(m).
Apply(name) ==
    /\ pending # NoPending
    /\ LET p == pending.partial
           r == CallDecorator(p.func, p.args, name, obj)
       IN  /\ obj' = IF r.status = "ok" THEN Bind(r.heap, name, r.ret) ELSE r.heap
           /\ last' = [op |-> "apply", ep |-> pending.ep, args |-> <<name>>,
                       kwargs |-> pending.kwargs, status |-> r.status,
                       msg |-> None, clsCalls |-> 0, decCalls |-> 1,
                       inst |-> p.args, ret |-> r.ret, before |-> obj,
                       after |-> obj']
    /\ ncalls' = ncalls + 1
    /\ UNCHANGED <<pending, query>>

\* A property class called directly: RequiredProperty(req, getter).
Construct(cls, rec, name) ==
    /\ LET r == IF cls = "RequiredProperty"
                THEN RequiredProperty_init(rec, obj[name])
                ELSE ProvidesProperty_init(rec, obj[name])
       IN  last' = [op |-> "construct", ep |-> cls, args |-> <<name>>,
                    kwargs |-> EmptyDict, status |-> r.status, msg |-> None,
                    clsCalls |-> 0, decCalls |-> 0, inst |-> rec, ret |-> r.ret,
                    before |-> obj, after |-> obj]
    /\ ncalls' = ncalls + 1
    /\ UNCHANGED <<obj, pending, query>>

\* One call of Required.required on the record and arguments drawn in Init.
Evaluate ==
    /\ ~query.done
    /\ query' = [query EXCEPT !.done = TRUE,
                   !.result = Required_required(query.self, query.version, query.caps)]
    /\ UNCHANGED <<obj, pending, last, ncalls>>

(***************************************************************************)
(* Inputs.                                                                 *)
(***************************************************************************)
Kwargs(keys, sinceVals, capVals) ==
    {[k \in D |-> IF k = "since" THEN s ELSE IF k = "cap" THEN c ELSE None] :
        D \in SUBSET keys, s \in sinceVals, c \in capVals}

Versions == 0..MaxVersion

ListItems == {Str(cs) : cs \in SeqsUpTo(Chars, 1)}

Lists == {List(xs) : xs \in SeqsUpTo(ListItems, MaxSeqLen)}

CapInputs == {None} \cup Strings \cup Lists

CapUniverse == ListItems

CapSets == {FrozenSet(S) : S \in SUBSET CapUniverse}

RequiredRecords ==
    {Required_init(s, K) : s \in Versions, K \in {None} \cup CapSets}

(***************************************************************************)
(* Spec: annotations stacked on one member f, bare and deferred, and the   *)
(* property classes called directly.                                       *)
(***************************************************************************)
Init ==
    /\ obj = Fresh
    /\ pending = NoPending
    /\ last = Idle
    /\ ncalls = 0
    /\ query = QueryIdle

Annotate ==
    /\ ncalls < MaxCalls
    /\ \E ep \in EntryPoints, args \in {<< >>, <<"f">>},
          kwargs \in Kwargs({"since", "cap"}, {1}, {Str(<<"a">>)}) :
            Call(ep, args, kwargs)

ApplyDeferred ==
    /\ ncalls < MaxCalls
    /\ Apply("f")

ConstructProperty ==
    /\ ncalls < MaxCalls
    /\ \/ \E rec \in {Required_init(1, None)} : Construct("RequiredProperty", rec, "f")
       \/ \E rec \in {Provides_init(1)} : Construct("ProvidesProperty", rec, "f")

Next == Annotate \/ ApplyDeferred \/ ConstructProperty

Spec == Init /\ [][Next]_vars

(***************************************************************************)
(* SpecHelper: one call of an entry point on fresh members, over every     *)
(* shape of positional and keyword arguments.                              *)
(***************************************************************************)
CallOnce ==
    /\ ncalls = 0
    /\ \E ep \in EntryPoints, args \in SeqsUpTo(Objs, MaxPosArgs),
          kwargs \in Kwargs({"since", "cap", "bogus"}, Versions, CapInputs) :
            Call(ep, args, kwargs)

NextHelper == CallOnce

SpecHelper == Init /\ [][NextHelper]_vars

(***************************************************************************)
(* SpecRequired: Required.required on every record, version and capability *)
(* set within the bounds.                                                  *)
(***************************************************************************)
InitRequired ==
    /\ obj = Fresh
    /\ pending = NoPending
    /\ last = Idle
    /\ ncalls = 0
    /\ query \in [self : RequiredRecords, version : Versions, caps : CapSets,
                  done : {FALSE}, result : {FALSE}]

NextRequired == Evaluate

SpecRequired == InitRequired /\ [][NextRequired]_vars

(***************************************************************************)
(* Vocabulary of the properties.                                           *)
(***************************************************************************)
RequiredFamily == {"required", "required_property"}

PlainFamily == {"required", "provides"}

ReqAttr == "__isrequiredmethod__"

ProvAttr == "__isprovidedmethod__"

\* The options an entry point documents.
Recognized(ep) == IF ep \in RequiredFamily THEN {"since", "cap"} ELSE {"since"}

\* The last operation handed a member to a decoration action.
Applied == last.op \in {"call", "apply"} /\ last.decCalls = 1

\* The member the last operation was applied to, as it was before.
MemberBefore == last.before[last.args[1]]

\* C1: Required(s, K).required(v, C) is true exactly when v >= s and K is
\* absent or K and C have a common element; v = s is in scope, and with K
\* absent the result does not depend on C.
C1_RequiredIff ==
    query.done =>
        LET s == query.self.since
            K == query.self.caps
            v == query.version
            C == query.caps.elems
        IN  /\ query.result <=>
                  (v >= s /\ (K = None \/ \E c \in C : c \in K.elems))
            /\ (v = s /\ K = None) => query.result
            /\ (v < s) => ~query.result

C1_Witness ==
    /\ query.done
    /\ query.version = query.self.since
    /\ query.self.caps = None
    /\ query.caps.elems = {}
    /\ query.result

C3_UnknownKeywordRejected ==
    (last.op = "call" /\ ~(DOMAIN last.kwargs \subseteq Recognized(last.ep))) =>
        /\ last.status = "TypeError"
        /\ last.clsCalls = 0
        /\ last.decCalls = 0
        /\ last.after = last.before
        /\ pending = NoPending

C3_Witness ==
    /\ last.op = "call"
    /\ last.ep = "provides"
    /\ last.args = <<"f">>
    /\ DOMAIN last.kwargs = {"cap"}
    /\ last.status = "TypeError"
    /\ obj["f"] = Function

\* C4: two or more positional arguments raise TypeError with no record
\* constructed, no decoration action invoked and no argument changed.
C4_ExtraPositionalRejected ==
    (last.op = "call" /\ Len(last.args) >= 2) =>
        /\ last.status = "TypeError"
        /\ last.clsCalls = 0
        /\ last.decCalls = 0
        /\ \A i \in 1..Len(last.args) :
              last.after[last.args[i]] = last.before[last.args[i]]
        /\ pending = NoPending

C4_Witness ==
    /\ last.op = "call"
    /\ last.args = <<"f", "g">>
    /\ DOMAIN last.kwargs = {}
    /\ last.status = "TypeError"
    /\ last.msg.kind = "positional"
    /\ obj = Fresh

\* The record an entry point builds when no option is given.
DefaultRecord(ep) ==
    IF ep \in RequiredFamily THEN Required_init(0, None) ELSE Provides_init(0)

AttrOf(ep) == IF ep \in RequiredFamily THEN ReqAttr ELSE ProvAttr

\* C5: each entry point called with the member alone completes, decorates
\* at once and returns the member (plain) or an accessor with the member as
\* getter (property), carrying the record built from the defaults.
C5_BareCallDecorates ==
    (last.op = "call" /\ Len(last.args) = 1 /\ DOMAIN last.kwargs = {}) =>
        /\ last.status = "ok"
        /\ last.decCalls = 1
        /\ GetAttrs(Returned(last), AttrOf(last.ep)) = {DefaultRecord(last.ep)}
        /\ IF last.ep \in PlainFamily
           THEN last.ret = Ref(last.args[1])
           ELSE last.ret.fget = MemberBefore

\* What the direct call ep(m, **kwargs) does to the namespace: its status,
\* the value it returns and the namespace once the name is rebound.
Direct(ep, name, kwargs, heap) ==
    LET d == EntryPoint(ep, <<name>>, kwargs, heap)
    IN  [status |-> d.status, ret |-> d.ret,
         after |-> IF d.status = "ok" THEN Bind(d.heap, name, d.ret) ELSE d.heap]

\* C6: a call with no positional argument and valid options decorates
\* nothing and returns a callable, and applying the callable to a member
\* has the same outcome (returned value, metadata on it) as the direct call
\* with that member and the same options.
C6_DeferredSameAsDirect ==
    /\ (last.op = "call" /\ last.args = << >>
            /\ DOMAIN last.kwargs \subseteq Recognized(last.ep)) =>
          /\ last.status = "ok"
          /\ last.decCalls = 0
          /\ last.ret.type = "partial"
          /\ last.after = last.before
    /\ (last.op = "apply") =>
          LET d == Direct(last.ep, last.args[1], last.kwargs, last.before)
          IN  /\ last.status = d.status
              /\ last.ret = d.ret
              /\ last.after = d.after

C6_Witness ==
    /\ last.op = "apply"
    /\ last.ep = "required"
    /\ DOMAIN last.kwargs = {"since", "cap"}
    /\ last.status = "ok"
    /\ last.ret = Ref("f")
    /\ GetAttrs(obj["f"], ReqAttr) =
          {Required_init(last.kwargs["since"], FrozenSet({last.kwargs["cap"]}))}
    /\ last.kwargs["since"] > 0

\* C7: RequiredProperty(req, getter) is an accessor whose
\* __isrequiredmethod__ is req, ProvidesProperty(prov, getter) one whose
\* __isprovidedmethod__ is prov, and neither construction fails.
C7_ConstructStores ==
    (last.op = "construct") =>
        /\ last.status = "ok"
        /\ last.ret.type = last.ep
        /\ last.ret.fget = MemberBefore
        /\ GetAttrs(last.ret,
                    IF last.ep = "RequiredProperty" THEN ReqAttr ELSE ProvAttr)
              = {last.inst}

\* Every object reachable from o through getters holds at most one value
\* under each of the two attribute names.
RECURSIVE AtMostOneEach(_)
AtMostOneEach(o) ==
    /\ Cardinality(GetAttrs(o, ReqAttr)) <= 1
    /\ Cardinality(GetAttrs(o, ProvAttr)) <= 1
    /\ (o.type # "function" /\ o.fget # None) => AtMostOneEach(o.fget)

\* C8: a member carries at most one requirement record and at most one
\* provision record, and a successful application leaves the record it
\* applied as the member's only record of that kind.
C8_AtMostOneRecord ==
    /\ \A n \in Objs : AtMostOneEach(obj[n])
    /\ (Applied /\ last.status = "ok") =>
          GetAttrs(Returned(last), AttrOf(last.ep)) = {last.inst}

C8_Witness ==
    /\ Applied
    /\ last.ep = "required"
    /\ last.status = "ok"
    /\ GetAttrs(MemberBefore, ReqAttr) # {}
    /\ GetAttrs(MemberBefore, ReqAttr) # {last.inst}
    /\ GetAttrs(obj["f"], ReqAttr) = {last.inst}

CapsOf(r) == IF r.caps = None THEN {} ELSE r.caps.elems

\* bool(cap) is false: cap omitted, None, the empty string, the empty list.
FalsyCap(kw) ==
    \/ "cap" \notin DOMAIN kw
    \/ kw["cap"] \in {None, Str(<< >>), List(<< >>)}

\* C10: the caps of a record built by required or required_property is
\* absent or a non-empty set, absent exactly for a falsy `cap`; so some
\* capability set makes required() true at version since.
C10_NeverEmptySet ==
    (last.op = "call" /\ last.ep \in RequiredFamily /\ last.clsCalls = 1) =>
        /\ last.inst.caps # FrozenSet({})
        /\ FalsyCap(last.kwargs) <=> last.inst.caps = None
        /\ \E C \in {FrozenSet(S) : S \in SUBSET CapsOf(last.inst)} :
              Required_required(last.inst, last.inst.since, C)

C10_Witness ==
    /\ last.op = "call"
    /\ last.ep = "required_property"
    /\ last.status = "ok"
    /\ "cap" \in DOMAIN last.kwargs
    /\ last.kwargs["cap"] = List(<< >>)
    /\ last.inst.caps = None
    /\ Required_required(last.inst, last.inst.since, FrozenSet({}))

====
